---------------------------- MODULE Spec2Model ----------------------------
(***************************************************************************)
(* State-machine model of the Tetris engine: the controller of             *)
(* brick_game/tetris/fsm.c and the grid and figure functions of            *)
(* brick_game/tetris/backend.c.  One action is one call of userInput.      *)
(***************************************************************************)
EXTENDS Integers, Sequences, FiniteSets, TLC

VARIABLES
  state,       \* TetrisState_t kept by updateTetrisState
  field,       \* game->field, ROWS_MAP x COLS_MAP cells
  next,        \* game->next, the preview figure
  figure,      \* the active figure kept by updateFigure
  fig_pos,     \* FigurePos_t kept by updateFigurePosition
  score,       \* game->score
  high_score,  \* game->high_score
  level,       \* game->level
  speed,       \* game->speed
  pause,       \* game->pause
  record,      \* content of HIGH_SCORE_FILE, NoRecord when the file is absent
  spawns,      \* number of figures spawned so far in this run
  last         \* what the last call did (history, read by no action)

vars == <<state, field, next, figure, fig_pos, score, high_score, level, speed,
          pause, record, spawns, last>>

----------------------------------------------------------------------------
(* Program constants (include/defines.h) *)

MAX_LEVEL == 10
INITIAL_TIMEOUT == 500
SPEED_DECREMENT == 30
NUMBER_OF_FIGURES == 7
SIDE_OF_FIGURE_SQUARE == 4
ROWS_MAP == 20
COLS_MAP == 10
FIGURESTART_X == (COLS_MAP - SIDE_OF_FIGURE_SQUARE) \div 2
FIGURESTART_Y == 0
NO_ERROR == 0
ERROR == 1

KEY_DOWN == 258
KEY_UP == 259
KEY_LEFT == 260
KEY_RIGHT == 261
ESCAPE == 27

(* Bounds of the model *)

\* a run spawns at most this many figures
MaxSpawns == 1
\* the calls of destruction_of_rows are made on fields with at most this many
\* complete rows (and on the completely filled field)
MaxFullRows == 4
\* rotate_figure is called at most this many times in a row
MaxRotations == 4
\* recalculate_stats is called at most this many times in a row
MaxStatsCalls == 4
\* get_action is called with the codes from -1 (no key within the timeout)
\* up to this one
MaxCode == 270

----------------------------------------------------------------------------
(* Types *)

TetrisStates == {"START", "SPAWN", "MOVING", "SHIFTING", "ATTACHING",
                 "GAMEOVER", "EXIT_ERROR"}
UserActions == {"Start", "Pause", "Terminate", "Left", "Right", "Up", "Down",
                "Action", "No_signal"}

FigIdx == 0 .. (SIDE_OF_FIGURE_SQUARE - 1)
RowIdx == 0 .. (ROWS_MAP - 1)
ColIdx == 0 .. (COLS_MAP - 1)

\* the file HIGH_SCORE_FILE does not exist
NoRecord == -1

\* a calloc'ed matrix: all cells 0
ZeroMatrix(rows, cols) == [i \in 0 .. (rows - 1) |-> [j \in 0 .. (cols - 1) |-> 0]]

----------------------------------------------------------------------------
(* backend.c: pure functions of the grid and figure engine *)

all_figures ==
  << << <<0,0,0,0>>, <<1,1,1,1>>, <<0,0,0,0>>, <<0,0,0,0>> >>,
     << <<0,0,0,0>>, <<0,1,1,0>>, <<0,1,1,0>>, <<0,0,0,0>> >>,
     << <<0,0,0,0>>, <<1,0,0,0>>, <<1,1,1,0>>, <<0,0,0,0>> >>,
     << <<0,0,0,0>>, <<0,0,1,0>>, <<1,1,1,0>>, <<0,0,0,0>> >>,
     << <<0,0,0,0>>, <<1,1,0,0>>, <<0,1,1,0>>, <<0,0,0,0>> >>,
     << <<0,0,0,0>>, <<0,1,1,0>>, <<1,1,0,0>>, <<0,0,0,0>> >>,
     << <<0,0,0,0>>, <<0,1,0,0>>, <<1,1,1,0>>, <<0,0,0,0>> >> >>

\* a copy that stops one column short: C24 does not hold of it
figures_choice_ThreeColumns(n) ==
  [i \in FigIdx |-> [j \in FigIdx |->
     IF j < SIDE_OF_FIGURE_SQUARE - 1 THEN all_figures[n + 1][i + 1][j + 1] ELSE 0]]

\* figures_choice(figure, n): the n-th template copied into the matrix
figures_choice(n) ==
  [i \in FigIdx |-> [j \in FigIdx |-> all_figures[n + 1][i + 1][j + 1]]]

\* a rotation without the temporary matrix: cell k = 4i + j is written from
\* the matrix as the cells before it left it
RECURSIVE InPlaceFrom(_, _)
InPlaceFrom(f, k) ==
  IF k >= SIDE_OF_FIGURE_SQUARE * SIDE_OF_FIGURE_SQUARE THEN f
  ELSE LET i == k \div SIDE_OF_FIGURE_SQUARE
           j == k % SIDE_OF_FIGURE_SQUARE
       IN  InPlaceFrom([f EXCEPT ![i][j] = f[j][SIDE_OF_FIGURE_SQUARE - i - 1]],
                       k + 1)

\* C11 does not hold of it
rotate_figure_InPlace(f) == InPlaceFrom(f, 0)

\* a mirror image instead of a rotation: C12 does not hold of it
rotate_figure_Mirror(f) ==
  [i \in FigIdx |-> [j \in FigIdx |-> f[i][SIDE_OF_FIGURE_SQUARE - j - 1]]]

\* rotate_figure: tmp[i][j] = figure[j][SIDE - i - 1], then copied back
rotate_figure(f) ==
  [i \in FigIdx |-> [j \in FigIdx |-> f[j][SIDE_OF_FIGURE_SQUARE - i - 1]]]

RECURSIVE rotate_times(_, _)
rotate_times(f, n) == IF n = 0 THEN f ELSE rotate_times(rotate_figure(f), n - 1)

\* assign_next_figure with rand() = random: both the rotation count and the
\* template number derive from the same draw
assign_next_figure(random) ==
  LET rotation_n == random % 4
      fig_number == random % NUMBER_OF_FIGURES
  IN  rotate_times(figures_choice(fig_number), rotation_n)

\* a collision test on the whole 4x4 box: C9 does not hold of it
check_collide_Box(fld, fig, pos) ==
  \E i \in FigIdx : \E j \in FigIdx :
     LET y == pos.y + i
         x == pos.x + j
     IN  \/ x < 0
         \/ y < 0
         \/ x >= COLS_MAP
         \/ y >= ROWS_MAP
         \/ (fig[i][j] = 1 /\ fld[y][x] = 1)

\* check_collide for a field, a figure and a position
check_collide(fld, fig, pos) ==
  \E i \in FigIdx : \E j \in FigIdx :
     /\ fig[i][j] = 1
     /\ LET y == pos.y + i
            x == pos.x + j
        IN  \/ x < 0
            \/ y < 0
            \/ x >= COLS_MAP
            \/ y >= ROWS_MAP
            \/ fld[y][x] = 1

\* leading all-zero rows of the matrix (first loop of init_figure_position)
RECURSIVE LeadingEmptyRows(_, _)
LeadingEmptyRows(fig, i) ==
  IF i >= SIDE_OF_FIGURE_SQUARE THEN 0
  ELSE IF \E j \in FigIdx : fig[i][j] # 0 THEN 0
  ELSE 1 + LeadingEmptyRows(fig, i + 1)

\* leading all-zero columns of the matrix (second loop of init_figure_position)
RECURSIVE LeadingEmptyCols(_, _)
LeadingEmptyCols(fig, i) ==
  IF i >= SIDE_OF_FIGURE_SQUARE THEN 0
  ELSE IF \E j \in FigIdx : fig[j][i] # 0 THEN 0
  ELSE 1 + LeadingEmptyCols(fig, i + 1)

\* a placement that does not look for the first occupied column: C21 does
\* not hold of it
init_figure_position_NoColumns(fig) ==
  [x |-> FIGURESTART_X, y |-> FIGURESTART_Y - LeadingEmptyRows(fig, 0)]

\* a placement that does not look for the first occupied row: C22 does not
\* hold of it
init_figure_position_NoRows(fig) ==
  [x |-> FIGURESTART_X - LeadingEmptyCols(fig, 0), y |-> FIGURESTART_Y]

\* init_figure_position: the start offset, moved up and left by the leading
\* empty rows and columns of the figure
init_figure_position(fig) ==
  [x |-> FIGURESTART_X - LeadingEmptyCols(fig, 0),
   y |-> FIGURESTART_Y - LeadingEmptyRows(fig, 0)]

\* attach_figure_to_field writing the value of every cell of the 4x4 box:
\* field[y+i][x+j] = figure[i][j]
attach_figure_to_field_Overwrite(fld, fig, pos) ==
  [r \in RowIdx |-> [c \in ColIdx |->
     IF /\ r - pos.y \in FigIdx
        /\ c - pos.x \in FigIdx
     THEN (IF fig[r - pos.y][c - pos.x] # 0 THEN 1 ELSE 0)
     ELSE fld[r][c]]]

\* attach_figure_to_field: field[y+i][x+j] = 1 for every set figure cell.
\* A set cell outside the field would be a write outside the allocation; the
\* controller attaches only where check_collide found none, so the model
\* keeps such a cell out of the field.
attach_figure_to_field(fld, fig, pos) ==
  [r \in RowIdx |-> [c \in ColIdx |->
     IF /\ r - pos.y \in FigIdx
        /\ c - pos.x \in FigIdx
        /\ fig[r - pos.y][c - pos.x] # 0
     THEN 1 ELSE fld[r][c]]]

\* check_finished_row: every cell of the row equals 1
check_finished_row(row) == \A j \in ColIdx : row[j] = 1

\* a shift that leaves row 0 as it is: C10 does not hold of it
shift_rows_down_KeepTop(fld, row) ==
  [i \in RowIdx |-> IF i > row THEN fld[i]
                    ELSE IF i > 0 THEN fld[i - 1]
                    ELSE fld[0]]

\* shift_rows_down(row): rows row..1 take the row above, row 0 becomes zero
shift_rows_down(fld, row) ==
  [i \in RowIdx |-> IF i > row THEN fld[i]
                    ELSE IF i > 0 THEN fld[i - 1]
                    ELSE [j \in ColIdx |-> 0]]

\* destruction_of_rows: the loop over i = 0 .. ROWS_MAP-1 on the field as it
\* is when row i is tested; yields the field and the count
RECURSIVE destruction_loop(_, _, _)
destruction_loop(fld, i, n_rows) ==
  IF i >= ROWS_MAP THEN [field |-> fld, n_rows |-> n_rows]
  ELSE IF check_finished_row(fld[i])
       THEN destruction_loop(shift_rows_down(fld, i), i + 1, n_rows + 1)
       ELSE destruction_loop(fld, i + 1, n_rows)

\* a destruction that walks the rows from the bottom up and goes on with the
\* row above after a shift
RECURSIVE destruction_loop_BottomUp(_, _, _)
destruction_loop_BottomUp(fld, i, n_rows) ==
  IF i < 0 THEN [field |-> fld, n_rows |-> n_rows]
  ELSE IF check_finished_row(fld[i])
       THEN destruction_loop_BottomUp(shift_rows_down(fld, i), i - 1, n_rows + 1)
       ELSE destruction_loop_BottomUp(fld, i - 1, n_rows)

destruction_of_rows_BottomUp(fld) ==
  destruction_loop_BottomUp(fld, ROWS_MAP - 1, 0)

destruction_of_rows(fld) == destruction_loop(fld, 0, 0)

\* a table that grows by 100 a row: C30 does not hold of it
ScoreAfter_Linear(sc, n_rows) ==
  IF n_rows >= 1 /\ n_rows <= 4 THEN sc + 100 * n_rows ELSE sc

\* the score after recalculate_stats(n_rows)
ScoreAfter(sc, n_rows) ==
  IF n_rows = 1 THEN sc + 100
  ELSE IF n_rows = 2 THEN sc + 300
  ELSE IF n_rows = 3 THEN sc + 700
  ELSE IF n_rows = 4 THEN sc + 1500
  ELSE sc

\* a recalculation that takes the level from the score before the rows were
\* counted: C14 does not hold of it
recalculate_stats_StaleLevel(g, n_rows) ==
  IF n_rows # 0
  THEN LET lv == 1 + g.score \div 600
       IN  [score |-> ScoreAfter(g.score, n_rows), level |-> lv,
            speed |-> INITIAL_TIMEOUT - (lv - 1) * SPEED_DECREMENT]
  ELSE g

\* recalculate_stats(n_rows) on (score, level, speed)
recalculate_stats(g, n_rows) ==
  IF n_rows # 0
  THEN LET sc == ScoreAfter(g.score, n_rows)
           lv == 1 + sc \div 600
       IN  [score |-> sc, level |-> lv,
            speed |-> INITIAL_TIMEOUT - (lv - 1) * SPEED_DECREMENT]
  ELSE g

\* a mapping that knows the letters in upper case only: C25 does not hold of it
get_action_UpperOnly(signal) ==
  IF signal = KEY_UP THEN "Up"
  ELSE IF signal = KEY_DOWN THEN "Down"
  ELSE IF signal = KEY_LEFT THEN "Left"
  ELSE IF signal = KEY_RIGHT THEN "Right"
  ELSE IF signal = 82 THEN "Start"
  ELSE IF signal = 32 THEN "Action"
  ELSE IF signal = 80 THEN "Pause"
  ELSE IF signal = ESCAPE THEN "Terminate"
  ELSE "No_signal"

\* get_action: raw key code to UserAction_t
get_action(signal) ==
  IF signal = KEY_UP THEN "Up"
  ELSE IF signal = KEY_DOWN THEN "Down"
  ELSE IF signal = KEY_LEFT THEN "Left"
  ELSE IF signal = KEY_RIGHT THEN "Right"
  ELSE IF signal = 82 \/ signal = 114 THEN "Start"
  ELSE IF signal = 32 THEN "Action"
  ELSE IF signal = 80 \/ signal = 112 THEN "Pause"
  ELSE IF signal = ESCAPE THEN "Terminate"
  ELSE "No_signal"

\* an update that hides its failure: C5 does not hold of it
high_score_update_Silent(sc, hs, rec, openRW, openW) ==
  [rc |-> NO_ERROR, high_score |-> hs, record |-> rec]

\* high_score_update with the outcome of the two fopen calls: openRW is
\* whether fopen(.., "r+") succeeds (never when the file is absent), openW
\* whether fopen(.., "w") succeeds.
high_score_update(sc, hs, rec, openRW, openW) ==
  IF hs = 0 \/ sc > hs
  THEN IF openRW /\ rec # NoRecord
       THEN LET read == rec
            IN  IF sc > read
                THEN [rc |-> NO_ERROR, high_score |-> sc, record |-> sc]
                ELSE [rc |-> NO_ERROR, high_score |-> read, record |-> rec]
       ELSE IF openW
            THEN [rc |-> NO_ERROR, high_score |-> hs, record |-> sc]
            ELSE [rc |-> ERROR, high_score |-> hs, record |-> rec]
  ELSE [rc |-> NO_ERROR, high_score |-> hs, record |-> rec]


----------------------------------------------------------------------------
(* fsm.c: the movement helpers of the MOVING state *)

\* movedown: while (!check_collide()) y++; then y--
RECURSIVE movedown_loop(_, _, _)
movedown_loop(fld, fig, pos) ==
  IF check_collide(fld, fig, pos) THEN pos
  ELSE movedown_loop(fld, fig, [pos EXCEPT !.y = @ + 1])

\* a drop that stops on the colliding row: C16 does not hold of it
movedown_NoStepBack(fld, fig, pos) == movedown_loop(fld, fig, pos)

movedown(fld, fig, pos) ==
  LET hit == movedown_loop(fld, fig, pos) IN [hit EXCEPT !.y = @ - 1]

\* a move to the right that does not look where it goes
moveright_Unchecked(fld, fig, pos) == [pos EXCEPT !.x = @ + 1]

\* moveright: x++; if (check_collide()) x--
moveright(fld, fig, pos) ==
  LET moved == [pos EXCEPT !.x = @ + 1]
  IN  IF check_collide(fld, fig, moved) THEN [moved EXCEPT !.x = @ - 1] ELSE moved

\* a move that does not look where it goes: C17 does not hold of it
moveleft_Unchecked(fld, fig, pos) == [pos EXCEPT !.x = @ - 1]

\* moveleft: x--; if (check_collide()) x++
moveleft(fld, fig, pos) ==
  LET moved == [pos EXCEPT !.x = @ - 1]
  IN  IF check_collide(fld, fig, moved) THEN [moved EXCEPT !.x = @ + 1] ELSE moved

\* a rotation that turns only twice more on collision: C18 does not hold of it
rotate_action_HalfBack(fld, fig, pos) ==
  LET turned == rotate_figure(fig)
  IN  IF check_collide(fld, turned, pos) THEN rotate_times(turned, 2) ELSE turned

\* rotate_action: rotate once; on collision rotate three more times
rotate_action(fld, fig, pos) ==
  LET turned == rotate_figure(fig)
  IN  IF check_collide(fld, turned, pos) THEN rotate_times(turned, 3) ELSE turned

----------------------------------------------------------------------------
(* fsm.c: the state handlers.  Each is the whole effect of one userInput     *)
(* call made in that state.                                                 *)

\* what the last step was: the state it was taken in, the rows it destroyed
\* and the return code of high_score_update (0 and NO_ERROR where the step
\* did neither)
Last(from, n_rows, rc) == [from |-> from, n_rows |-> n_rows, rc |-> rc]

\* a start handler that does not know Terminate: C2 does not hold of it
StartTarget_NoTerminate(signal) ==
  IF signal = "Start" THEN "SPAWN" ELSE "START"

\* the state on_start_state leaves for a signal
StartTarget(signal) ==
  IF signal = "Start" THEN "SPAWN"
  ELSE IF signal = "Terminate" THEN "GAMEOVER"
  ELSE "START"

on_start_state(signal, random) ==
  /\ state = "START"
  /\ next' = IF signal = "Start" THEN assign_next_figure(random) ELSE next
  /\ state' = StartTarget(signal)
  /\ last' = Last("START", 0, NO_ERROR)
  /\ UNCHANGED <<field, figure, fig_pos, score, high_score, level, speed, pause,
                 record, spawns>>

\* a spawn that does not test the placement: C4 does not hold of it
SpawnTarget_NoCheck(fld, fig, pos) == "MOVING"

\* the state on_spawn_state leaves once the figure is placed
SpawnTarget(fld, fig, pos) ==
  IF check_collide(fld, fig, pos) THEN "GAMEOVER" ELSE "MOVING"

\* a spawn that draws the new next figure before it copies: C23 does not hold
\* of it
on_spawn_state_AssignFirst(random, openRW, openW) ==
  /\ state = "SPAWN"
  /\ spawns < MaxSpawns
  /\ LET hs == high_score_update(score, high_score, record, openRW, openW)
     IN  /\ high_score' = hs.high_score
         /\ record' = hs.record
         /\ last' = Last("SPAWN", 0, hs.rc)
         /\ IF hs.rc = NO_ERROR
            THEN /\ next' = assign_next_figure(random)
                 /\ figure' = next'
                 /\ fig_pos' = init_figure_position(figure')
                 /\ state' = SpawnTarget(field, figure', fig_pos')
                 /\ spawns' = spawns + 1
            ELSE /\ state' = "EXIT_ERROR"
                 /\ UNCHANGED <<figure, next, fig_pos, spawns>>
  /\ UNCHANGED <<field, score, level, speed, pause>>

on_spawn_state(random, openRW, openW) ==
  /\ state = "SPAWN"
  /\ spawns < MaxSpawns
  /\ LET hs == high_score_update(score, high_score, record, openRW, openW)
     IN  /\ high_score' = hs.high_score
         /\ record' = hs.record
         /\ last' = Last("SPAWN", 0, hs.rc)
         /\ IF hs.rc = NO_ERROR
            THEN /\ figure' = next
                 /\ next' = assign_next_figure(random)
                 /\ fig_pos' = init_figure_position(figure')
                 /\ state' = SpawnTarget(field, figure', fig_pos')
                 /\ spawns' = spawns + 1
            ELSE /\ state' = "EXIT_ERROR"
                 /\ UNCHANGED <<figure, next, fig_pos, spawns>>
  /\ UNCHANGED <<field, score, level, speed, pause>>

\* a moving handler that holds the figure on Pause: C3 does not hold of it
MovingTarget_PauseHolds(signal) ==
  IF signal = "Terminate" THEN "GAMEOVER"
  ELSE IF signal = "Pause" THEN "MOVING"
  ELSE "SHIFTING"

\* a moving handler that does not hand over to SHIFTING
MovingTarget_Stays(signal) == IF signal = "Terminate" THEN "GAMEOVER" ELSE "MOVING"

\* the state on_moving_state leaves for a signal
MovingTarget(signal) == IF signal = "Terminate" THEN "GAMEOVER" ELSE "SHIFTING"

\* a moving handler in which Down also locks the figure where it comes to
\* rest: C29 does not hold of it
on_moving_state_DropLocks(signal) ==
  /\ state = "MOVING"
  /\ fig_pos' = IF signal = "Down" THEN movedown(field, figure, fig_pos)
                ELSE IF signal = "Right" THEN moveright(field, figure, fig_pos)
                ELSE IF signal = "Left" THEN moveleft(field, figure, fig_pos)
                ELSE fig_pos
  /\ figure' = IF signal = "Action" THEN rotate_action(field, figure, fig_pos)
               ELSE figure
  /\ field' = IF signal = "Down"
              THEN attach_figure_to_field(field, figure, fig_pos')
              ELSE field
  /\ state' = MovingTarget(signal)
  /\ last' = Last("MOVING", 0, NO_ERROR)
  /\ UNCHANGED <<next, score, high_score, level, speed, pause, record, spawns>>

\* a moving handler in which Up drops the figure: C19 does not hold of it
on_moving_state_UpDrops(signal) ==
  /\ state = "MOVING"
  /\ fig_pos' = IF signal \in {"Down", "Up"} THEN movedown(field, figure, fig_pos)
                ELSE IF signal = "Right" THEN moveright(field, figure, fig_pos)
                ELSE IF signal = "Left" THEN moveleft(field, figure, fig_pos)
                ELSE fig_pos
  /\ figure' = IF signal = "Action" THEN rotate_action(field, figure, fig_pos)
               ELSE figure
  /\ state' = MovingTarget(signal)
  /\ last' = Last("MOVING", 0, NO_ERROR)
  /\ UNCHANGED <<field, next, score, high_score, level, speed, pause, record,
                 spawns>>

on_moving_state(signal) ==
  /\ state = "MOVING"
  /\ fig_pos' = IF signal = "Down" THEN movedown(field, figure, fig_pos)
                ELSE IF signal = "Right" THEN moveright(field, figure, fig_pos)
                ELSE IF signal = "Left" THEN moveleft(field, figure, fig_pos)
                ELSE fig_pos
  /\ figure' = IF signal = "Action" THEN rotate_action(field, figure, fig_pos)
               ELSE figure
  /\ state' = MovingTarget(signal)
  /\ last' = Last("MOVING", 0, NO_ERROR)
  /\ UNCHANGED <<field, next, score, high_score, level, speed, pause, record,
                 spawns>>

\* a gravity step of two rows: C6 does not hold of it
ShiftedPos_TwoRows(pos) == [pos EXCEPT !.y = @ + 2]

\* on_shifting_state: y++; on collision y-- and ATTACHING, else MOVING
ShiftedPos(pos) == [pos EXCEPT !.y = @ + 1]

\* a gravity step that takes the collision for an error: C28 does not hold of
\* it
on_shifting_state_CollisionIsError ==
  /\ state = "SHIFTING"
  /\ IF check_collide(field, figure, ShiftedPos(fig_pos))
     THEN /\ fig_pos' = [ShiftedPos(fig_pos) EXCEPT !.y = @ - 1]
          /\ state' = "EXIT_ERROR"
     ELSE /\ fig_pos' = ShiftedPos(fig_pos)
          /\ state' = "MOVING"
  /\ last' = Last("SHIFTING", 0, NO_ERROR)
  /\ UNCHANGED <<field, next, figure, score, high_score, level, speed, pause,
                 record, spawns>>

\* a gravity step that prints the figure one row lower and leaves it where
\* it was
on_shifting_state_NoStep ==
  /\ state = "SHIFTING"
  /\ IF check_collide(field, figure, ShiftedPos(fig_pos))
     THEN /\ fig_pos' = [ShiftedPos(fig_pos) EXCEPT !.y = @ - 1]
          /\ state' = "ATTACHING"
     ELSE /\ fig_pos' = [ShiftedPos(fig_pos) EXCEPT !.y = @ - 1]
          /\ state' = "MOVING"
  /\ last' = Last("SHIFTING", 0, NO_ERROR)
  /\ UNCHANGED <<field, next, figure, score, high_score, level, speed, pause,
                 record, spawns>>

on_shifting_state ==
  /\ state = "SHIFTING"
  /\ IF check_collide(field, figure, ShiftedPos(fig_pos))
     THEN /\ fig_pos' = [ShiftedPos(fig_pos) EXCEPT !.y = @ - 1]
          /\ state' = "ATTACHING"
     ELSE /\ fig_pos' = ShiftedPos(fig_pos)
          /\ state' = "MOVING"
  /\ last' = Last("SHIFTING", 0, NO_ERROR)
  /\ UNCHANGED <<field, next, figure, score, high_score, level, speed, pause,
                 record, spawns>>

\* a cap that ends the game on reaching MAX_LEVEL: C8 does not hold of it
AttachingTarget_CapAtMax(fld, fig, pos, lv) ==
  LET st == IF check_collide(fld, fig, pos) THEN "SPAWN" ELSE "ATTACHING"
  IN  IF lv >= MAX_LEVEL THEN "GAMEOVER" ELSE st

\* an attaching handler without the test of the level
AttachingTarget_NoCap(fld, fig, pos, lv) ==
  IF check_collide(fld, fig, pos) THEN "SPAWN" ELSE "ATTACHING"

\* the state on_attaching_state leaves: SPAWN only if the figure collides with
\* the field as it is after the rows were removed, GAMEOVER above MAX_LEVEL
AttachingTarget(fld, fig, pos, lv) ==
  LET st == IF check_collide(fld, fig, pos) THEN "SPAWN" ELSE "ATTACHING"
  IN  IF lv > MAX_LEVEL THEN "GAMEOVER" ELSE st

on_attaching_state ==
  /\ state = "ATTACHING"
  /\ LET attached == attach_figure_to_field(field, figure, fig_pos)
         destroyed == destruction_of_rows(attached)
         stats == recalculate_stats(
                    [score |-> score, level |-> level, speed |-> speed],
                    destroyed.n_rows)
     IN  /\ field' = destroyed.field
         /\ score' = stats.score
         /\ level' = stats.level
         /\ speed' = stats.speed
         /\ state' = AttachingTarget(destroyed.field, figure, fig_pos, stats.level)
         /\ last' = Last("ATTACHING", destroyed.n_rows, NO_ERROR)
  /\ UNCHANGED <<next, figure, fig_pos, high_score, pause, record, spawns>>

\* a GAMEOVER that starts over: C7 does not hold of it
on_gameover_state_Restart ==
  /\ state = "GAMEOVER"
  /\ state' = "START"
  /\ last' = Last("GAMEOVER", 0, NO_ERROR)
  /\ UNCHANGED <<field, next, figure, fig_pos, score, high_score, level,
                 speed, pause, record, spawns>>

on_gameover_state ==
  /\ state = "GAMEOVER"
  /\ last' = Last("GAMEOVER", 0, NO_ERROR)
  /\ UNCHANGED <<state, field, next, figure, fig_pos, score, high_score, level,
                 speed, pause, record, spawns>>

on_exit_error_state ==
  /\ state = "EXIT_ERROR"
  /\ last' = Last("EXIT_ERROR", 0, NO_ERROR)
  /\ UNCHANGED <<state, field, next, figure, fig_pos, score, high_score, level,
                 speed, pause, record, spawns>>

----------------------------------------------------------------------------
(* The environment: the draws of rand() and the outcomes of fopen *)

\* the values of rand() the model draws: 7 is the I figure rotated 3 times
\* (upright), 1 the O figure
Rands == {7, 1}

\* a dispatcher that takes Terminate in every state
userInput_TerminateAnywhere(action) ==
  IF action = "Terminate" /\ state \notin {"START", "MOVING"}
  THEN /\ state' = "GAMEOVER"
       /\ last' = Last(state, 0, NO_ERROR)
       /\ UNCHANGED <<field, next, figure, fig_pos, score, high_score, level,
                      speed, pause, record, spawns>>
  ELSE \/ \E random \in Rands : on_start_state(action, random)
       \/ \E random \in Rands : \E openRW \in BOOLEAN : \E openW \in BOOLEAN :
             on_spawn_state(random, openRW, openW)
       \/ on_moving_state(action)
       \/ on_shifting_state
       \/ on_attaching_state
       \/ on_gameover_state
       \/ on_exit_error_state

\* userInput(action, hold): dispatch on the state; hold is unused
userInput(action) ==
  \/ \E random \in Rands : on_start_state(action, random)
  \/ \E random \in Rands : \E openRW \in BOOLEAN : \E openW \in BOOLEAN :
        on_spawn_state(random, openRW, openW)
  \/ on_moving_state(action)
  \/ on_shifting_state
  \/ on_attaching_state
  \/ on_gameover_state
  \/ on_exit_error_state

----------------------------------------------------------------------------
(* Initial states *)

\* init_game: empty field and figures, START; the record file is absent or
\* holds the high score of an earlier session
InitGame ==
  /\ state = "START"
  /\ field = ZeroMatrix(ROWS_MAP, COLS_MAP)
  /\ next = ZeroMatrix(SIDE_OF_FIGURE_SQUARE, SIDE_OF_FIGURE_SQUARE)
  /\ figure = ZeroMatrix(SIDE_OF_FIGURE_SQUARE, SIDE_OF_FIGURE_SQUARE)
  /\ fig_pos = [x |-> 0, y |-> 0]
  /\ score = 0
  /\ level = 1
  /\ high_score = 0
  /\ speed = INITIAL_TIMEOUT
  /\ pause = 0
  /\ record \in {NoRecord, 4500}
  /\ spawns = 0
  /\ last = Last("init", 0, NO_ERROR)

\* A field given by the topmost filled row of each column (ROWS_MAP for an
\* empty column): every cell from that row down is filled.
FieldOfTops(tops) ==
  [r \in RowIdx |-> [c \in ColIdx |-> IF r >= tops[c + 1] THEN 1 ELSE 0]]

UprightI == rotate_times(figures_choice(0), 3)
FlatI == figures_choice(0)
FigureO == figures_choice(1)

\* Every step in MOVING is followed by a step in SHIFTING, so a figure goes
\* down one row for each column it moves sideways: it reaches a column only
\* over a staircase of free cells that starts at the spawn column 3.  The
\* fields below respect that in the order they are built.
\*
\* Funnel(k): column 9 holds two upright I figures (placed first, over the
\* empty field), columns 0..3 are filled from row 4 down by I figures,
\* columns 5..8 hold k flat I figures (placed last); column 4 is empty, so
\* no row was ever complete.  An upright I dropped into column 4 completes
\* the lowest min(k, 4) rows.
Funnel(k) ==
  FieldOfTops(<<4, 4, 4, 4, ROWS_MAP,
                ROWS_MAP - k, ROWS_MAP - k, ROWS_MAP - k, ROWS_MAP - k, 12>>)

\* Well2: columns 0..2 hold four upright I figures each, columns 5..8 eight
\* flat ones, columns 3 and 4 are empty: an O dropped straight down completes
\* rows 18 and 19.
Well2 == FieldOfTops(<<4, 4, 4, ROWS_MAP, ROWS_MAP, 12, 12, 12, 12, 12>>)

\* TopOut: nine O figures dropped straight down on columns 3 and 4.
TopOut ==
  FieldOfTops(<<ROWS_MAP, ROWS_MAP, ROWS_MAP, 2, 2,
                ROWS_MAP, ROWS_MAP, ROWS_MAP, ROWS_MAP, ROWS_MAP>>)

\* where an upright I dropped into column 4 of Funnel(k) comes to rest
InWell == [x |-> 2, y |-> ROWS_MAP - SIDE_OF_FIGURE_SQUARE]

\* the field after that figure completed the lowest row of Funnel(1)
AfterRow ==
  destruction_of_rows(attach_figure_to_field(Funnel(1), UprightI, InWell)).field

\* The mid-game situations the model starts from besides init_game, each in
\* SPAWN with the figure attached last still in place.  The high score and
\* the record are those the spawn before left: the score of that time.
\* A score of 4500 is three times four rows, completed by one upright I in
\* column 2 when every other column was filled from row 8 down; that figure
\* is the bottom of column 2 of the fields below.
MidGames ==
  { \* the last flat I attached on columns 5..8; no row completed so far
    [field |-> Funnel(1), figure |-> FlatI, fig_pos |-> [x |-> 5, y |-> 18],
     score |-> 0, high_score |-> 0, record |-> 0],
    [field |-> Funnel(3), figure |-> FlatI, fig_pos |-> [x |-> 5, y |-> 16],
     score |-> 0, high_score |-> 0, record |-> 0],
    [field |-> Funnel(16), figure |-> FlatI, fig_pos |-> [x |-> 5, y |-> 3],
     score |-> 4500, high_score |-> 4500, record |-> 4500],
    [field |-> Well2, figure |-> FlatI, fig_pos |-> [x |-> 5, y |-> 11],
     score |-> 4500, high_score |-> 4500, record |-> 4500],
    \* the last O attached on columns 3..4, rows 2..3
    [field |-> TopOut, figure |-> FigureO, fig_pos |-> [x |-> 2, y |-> 1],
     score |-> 0, high_score |-> 0, record |-> 0],
    \* the upright I that completed a row: the score is ahead of the high
    \* score and of the record
    [field |-> AfterRow, figure |-> UprightI, fig_pos |-> InWell,
     score |-> 100, high_score |-> 0, record |-> 0] }

InitMidGame ==
  /\ state = "SPAWN"
  /\ \E m \in MidGames :
        /\ field = m.field
        /\ figure = m.figure
        /\ fig_pos = m.fig_pos
        /\ score = m.score
        /\ level = 1 + m.score \div 600
        /\ speed = INITIAL_TIMEOUT - (m.score \div 600) * SPEED_DECREMENT
        /\ high_score = m.high_score
        /\ record = m.record
  /\ \E random \in Rands : next = assign_next_figure(random)
  /\ pause = 0
  /\ spawns = 0
  /\ last = Last("init", 0, NO_ERROR)

Init == InitGame \/ InitMidGame

\* one call of userInput: the handlers of SPAWN, SHIFTING, ATTACHING, GAMEOVER
\* and EXIT_ERROR take no action, so the choice of the action is made only
\* for the two that do
Next ==
  \/ \E action \in UserActions : \E random \in Rands : on_start_state(action, random)
  \/ \E random \in Rands : \E openRW \in BOOLEAN : \E openW \in BOOLEAN :
        on_spawn_state(random, openRW, openW)
  \/ \E action \in UserActions : on_moving_state(action)
  \/ on_shifting_state
  \/ on_attaching_state
  \/ on_gameover_state
  \/ on_exit_error_state

Spec == Init /\ [][Next]_vars


----------------------------------------------------------------------------
(* Calls of the backend functions on their own: check_collide and          *)
(* destruction_of_rows are exported by backend.h and read only the field,  *)
(* the figure and the position they are called with.                       *)

\* every template in every rotation
AllFigures ==
  {rotate_times(figures_choice(n), r) :
     n \in 0..(NUMBER_OF_FIGURES - 1), r \in 0..3}

\* every position that has the 4x4 box on or next to the field
AllPositions ==
  [x : (0 - SIDE_OF_FIGURE_SQUARE)..COLS_MAP,
   y : (0 - SIDE_OF_FIGURE_SQUARE)..ROWS_MAP]

CollideFields == {ZeroMatrix(ROWS_MAP, COLS_MAP), Funnel(3), Well2, TopOut}

InitCollide ==
  /\ state = "MOVING"
  /\ field \in CollideFields
  /\ figure \in AllFigures
  /\ fig_pos \in AllPositions
  /\ next = ZeroMatrix(SIDE_OF_FIGURE_SQUARE, SIDE_OF_FIGURE_SQUARE)
  /\ score = 0
  /\ level = 1
  /\ high_score = 0
  /\ speed = INITIAL_TIMEOUT
  /\ pause = 0
  /\ record = NoRecord
  /\ spawns = 0
  /\ last = Last("init", 0, NO_ERROR)

\* one call of check_collide; last.rc takes what it returns
CheckCollideCall ==
  /\ last.from = "init"
  /\ last' = Last("check_collide", 0,
                  IF check_collide(field, figure, fig_pos) THEN 1 ELSE 0)
  /\ UNCHANGED <<state, field, next, figure, fig_pos, score, high_score, level,
                 speed, pause, record, spawns>>

NextCollide == CheckCollideCall

SpecCollide == InitCollide /\ [][NextCollide]_vars

\* A call of attach_figure_to_field on its own.  The function indexes the
\* field without a bounds test, so it is called where every set cell of the
\* figure lies inside the field.
AttachPositions ==
  [x : (0 - 2)..(COLS_MAP - 1), y : (0 - 2)..(ROWS_MAP - 1)]

InitAttach ==
  /\ state = "ATTACHING"
  /\ field \in CollideFields
  /\ figure \in AllFigures
  /\ fig_pos \in AttachPositions
  /\ \A i \in FigIdx, j \in FigIdx :
        figure[i][j] # 0 => /\ fig_pos.y + i \in RowIdx
                            /\ fig_pos.x + j \in ColIdx
  /\ next = ZeroMatrix(SIDE_OF_FIGURE_SQUARE, SIDE_OF_FIGURE_SQUARE)
  /\ score = 0
  /\ level = 1
  /\ high_score = 0
  /\ speed = INITIAL_TIMEOUT
  /\ pause = 0
  /\ record = NoRecord
  /\ spawns = 0
  /\ last = Last("init", 0, NO_ERROR)

\* one call of attach_figure_to_field
AttachFigureToFieldCall ==
  /\ last.from = "init"
  /\ field' = attach_figure_to_field(field, figure, fig_pos)
  /\ last' = Last("attach_figure_to_field", 0, NO_ERROR)
  /\ UNCHANGED <<state, next, figure, fig_pos, score, high_score, level,
                 speed, pause, record, spawns>>

NextAttach == AttachFigureToFieldCall

SpecAttach == InitAttach /\ [][NextAttach]_vars

\* the row of the field that is incomplete and differs from row to row: the
\* binary digits of r + 1
PatternRow(r) == [c \in ColIdx |-> ((r + 1) \div (2 ^ c)) % 2]

FullRow == [c \in ColIdx |-> 1]

\* the field whose complete rows are exactly those of full
RowsField(full) == [r \in RowIdx |-> IF r \in full THEN FullRow ELSE PatternRow(r)]

InitRows ==
  /\ state = "ATTACHING"
  /\ \E full \in SUBSET RowIdx :
        /\ Cardinality(full) <= MaxFullRows \/ full = RowIdx
        /\ field = RowsField(full)
  /\ figure = ZeroMatrix(SIDE_OF_FIGURE_SQUARE, SIDE_OF_FIGURE_SQUARE)
  /\ fig_pos = [x |-> 0, y |-> 0]
  /\ next = ZeroMatrix(SIDE_OF_FIGURE_SQUARE, SIDE_OF_FIGURE_SQUARE)
  /\ score = 0
  /\ level = 1
  /\ high_score = 0
  /\ speed = INITIAL_TIMEOUT
  /\ pause = 0
  /\ record = NoRecord
  /\ spawns = 0
  /\ last = Last("init", 0, NO_ERROR)

\* one call of destruction_of_rows; last.n_rows takes what it returns
DestructionOfRowsCall ==
  /\ last.from = "init"
  /\ LET destroyed == destruction_of_rows(field)
     IN  /\ field' = destroyed.field
         /\ last' = Last("destruction_of_rows", destroyed.n_rows, NO_ERROR)
  /\ UNCHANGED <<state, next, figure, fig_pos, score, high_score, level, speed,
                 pause, record, spawns>>

NextRows == DestructionOfRowsCall

SpecRows == InitRows /\ [][NextRows]_vars

\* the matrix whose sixteen cells all differ: what becomes of it shows where
\* every cell goes
NumberedMatrix ==
  [i \in FigIdx |-> [j \in FigIdx |-> SIDE_OF_FIGURE_SQUARE * i + j + 1]]

RotateFigures == AllFigures \cup {NumberedMatrix}

\* in these calls last keeps the matrix as it was before the first call and
\* the number of calls made
InitRotate ==
  /\ state = "MOVING"
  /\ field \in {ZeroMatrix(ROWS_MAP, COLS_MAP), Well2}
  /\ figure \in RotateFigures
  /\ fig_pos = [x |-> FIGURESTART_X, y |-> FIGURESTART_Y]
  /\ next = ZeroMatrix(SIDE_OF_FIGURE_SQUARE, SIDE_OF_FIGURE_SQUARE)
  /\ score = 0
  /\ level = 1
  /\ high_score = 0
  /\ speed = INITIAL_TIMEOUT
  /\ pause = 0
  /\ record = NoRecord
  /\ spawns = 0
  /\ last = [from |-> "init", calls |-> 0, before |-> figure]

\* one call of rotate_figure(figure)
RotateFigureCall ==
  /\ last.calls < MaxRotations
  /\ figure' = rotate_figure(figure)
  /\ last' = [from |-> "rotate_figure", calls |-> last.calls + 1,
              before |-> last.before]
  /\ UNCHANGED <<state, field, next, fig_pos, score, high_score, level, speed,
                 pause, record, spawns>>

NextRotate == RotateFigureCall

SpecRotate == InitRotate /\ [][NextRotate]_vars

\* Calls of recalculate_stats after init_game; last keeps the arguments of the
\* calls made so far.  A figure lies in at most SIDE_OF_FIGURE_SQUARE rows.
InitStats ==
  /\ state = "START"
  /\ field = ZeroMatrix(ROWS_MAP, COLS_MAP)
  /\ next = ZeroMatrix(SIDE_OF_FIGURE_SQUARE, SIDE_OF_FIGURE_SQUARE)
  /\ figure = ZeroMatrix(SIDE_OF_FIGURE_SQUARE, SIDE_OF_FIGURE_SQUARE)
  /\ fig_pos = [x |-> 0, y |-> 0]
  /\ score = 0
  /\ level = 1
  /\ high_score = 0
  /\ speed = INITIAL_TIMEOUT
  /\ pause = 0
  /\ record = NoRecord
  /\ spawns = 0
  /\ last = [from |-> "init", ns |-> <<>>]

RecalculateStatsCall(n) ==
  /\ Len(last.ns) < MaxStatsCalls
  /\ LET stats == recalculate_stats(
                    [score |-> score, level |-> level, speed |-> speed], n)
     IN  /\ score' = stats.score
         /\ level' = stats.level
         /\ speed' = stats.speed
  /\ last' = [from |-> "recalculate_stats", ns |-> Append(last.ns, n)]
  /\ UNCHANGED <<state, field, next, figure, fig_pos, high_score, pause,
                 record, spawns>>

NextStats == \E n \in 0..SIDE_OF_FIGURE_SQUARE : RecalculateStatsCall(n)

SpecStats == InitStats /\ [][NextStats]_vars

\* A session in which the record file can always be opened: fopen(.., "r+")
\* succeeds whenever the file exists and fopen(.., "w") whenever it does not,
\* so high_score_update returns NO_ERROR and EXIT_ERROR is never entered.
NextSession ==
  \/ \E action \in UserActions : \E random \in Rands : on_start_state(action, random)
  \/ \E random \in Rands : on_spawn_state(random, TRUE, TRUE)
  \/ \E action \in UserActions : on_moving_state(action)
  \/ on_shifting_state
  \/ on_attaching_state
  \/ on_gameover_state

SpecSession == Init /\ [][NextSession]_vars

\* The end of a long session: the figure is placed over a field that lacks
\* one column, late in the game.  The scores are 4500 (three times four
\* rows), 5200 (and three rows more) and 5900 (and three rows again), the
\* highest score a session can have at level 10; the spawn that placed the
\* figure has put the score on record.  One more figure is spawned after
\* this one.
LateScores == {4500, 5200, 5900}

InitEndgame ==
  /\ state = "MOVING"
  /\ field \in {Funnel(1), Funnel(3), Funnel(16)}
  /\ \E random \in Rands : figure = assign_next_figure(random)
  /\ fig_pos = init_figure_position(figure)
  /\ \E random \in Rands : next = assign_next_figure(random)
  /\ score \in LateScores
  /\ level = 1 + score \div 600
  /\ speed = INITIAL_TIMEOUT - (score \div 600) * SPEED_DECREMENT
  /\ high_score = score
  /\ pause = 0
  /\ record = score
  /\ spawns = MaxSpawns - 1
  /\ last = Last("SPAWN", 0, NO_ERROR)

NextEndgame ==
  \/ \E random \in Rands : on_spawn_state(random, TRUE, TRUE)
  \/ \E action \in UserActions : on_moving_state(action)
  \/ on_shifting_state
  \/ on_attaching_state
  \/ on_gameover_state

SpecEndgame == InitEndgame /\ [][NextEndgame]_vars

\* The start of a session with every figure: rand() % 4 and
\* rand() % NUMBER_OF_FIGURES of one draw take every pair of values as the
\* draw runs over 4 * NUMBER_OF_FIGURES consecutive numbers.  The player
\* presses any key in START and Terminate once the figure is placed.
AllRands == 0 .. (4 * NUMBER_OF_FIGURES - 1)

NextStartup ==
  \/ \E action \in UserActions : \E random \in AllRands :
        on_start_state(action, random)
  \/ \E random \in AllRands : \E openRW \in BOOLEAN : \E openW \in BOOLEAN :
        on_spawn_state(random, openRW, openW)
  \/ on_moving_state("Terminate")
  \/ on_gameover_state
  \/ on_exit_error_state

SpecStartup == InitGame /\ [][NextStartup]_vars

\* The play of one figure, for every figure: from START to the Start step
\* that draws the first next figure, and from the state a first SPAWN step
\* leaves (the figure placed over the field, the next figure drawn) through
\* the MOVING, SHIFTING and ATTACHING steps to the step that asks for the
\* next spawn.
InitPlaced ==
  /\ state = "MOVING"
  /\ field \in {ZeroMatrix(ROWS_MAP, COLS_MAP), Funnel(1), Funnel(3), Funnel(16),
                Well2}
  /\ \E random \in AllRands : figure = assign_next_figure(random)
  /\ fig_pos = init_figure_position(figure)
  /\ \E random \in Rands : next = assign_next_figure(random)
  /\ score = 0
  /\ level = 1
  /\ high_score = 0
  /\ speed = INITIAL_TIMEOUT
  /\ pause = 0
  /\ record = 0
  /\ spawns = 1
  /\ last = Last("SPAWN", 0, NO_ERROR)

InitPlay == InitGame \/ InitPlaced

NextPlay ==
  \/ \E action \in UserActions : \E random \in AllRands :
        on_start_state(action, random)
  \/ \E action \in UserActions : on_moving_state(action)
  \/ on_shifting_state
  \/ on_attaching_state
  \/ on_gameover_state

SpecPlay == InitPlay /\ [][NextPlay]_vars

\* Calls of get_action after init_game, as game_loop makes them with what
\* getch() returned; last keeps the code and what the call returned.
RawCodes == (0 - 1) .. MaxCode

InitGetAction ==
  /\ state = "START"
  /\ field = ZeroMatrix(ROWS_MAP, COLS_MAP)
  /\ next = ZeroMatrix(SIDE_OF_FIGURE_SQUARE, SIDE_OF_FIGURE_SQUARE)
  /\ figure = ZeroMatrix(SIDE_OF_FIGURE_SQUARE, SIDE_OF_FIGURE_SQUARE)
  /\ fig_pos = [x |-> 0, y |-> 0]
  /\ score = 0
  /\ level = 1
  /\ high_score = 0
  /\ speed = INITIAL_TIMEOUT
  /\ pause = 0
  /\ record = NoRecord
  /\ spawns = 0
  /\ \E signal \in RawCodes :
        last = [from |-> "init", signal |-> signal, action |-> "No_signal"]

GetActionCall ==
  /\ last.from = "init"
  /\ last' = [from |-> "get_action", signal |-> last.signal,
              action |-> get_action(last.signal)]
  /\ UNCHANGED <<state, field, next, figure, fig_pos, score, high_score, level,
                 speed, pause, record, spawns>>

NextGetAction == GetActionCall

SpecGetAction == InitGetAction /\ [][NextGetAction]_vars

\* The program from its start: main calls init_game and, if that returns
\* NO_ERROR, game_loop.  Before init_game the static objects are zero: the
\* state is START (0), the three matrices are null pointers, the numbers 0.
NULL == <<>>

\* which of the allocations of init_game fails, in the order it makes them:
\* the active figure (updateFigure), the field, the next figure
AllocFailures == {"none", "figure", "field", "next"}

InitBoot ==
  /\ state = "START"
  /\ field = NULL
  /\ next = NULL
  /\ figure = NULL
  /\ fig_pos = [x |-> 0, y |-> 0]
  /\ score = 0
  /\ level = 0
  /\ high_score = 0
  /\ speed = 0
  /\ pause = 0
  /\ record \in {NoRecord, 4500}
  /\ spawns = 0
  /\ last = [from |-> "boot", failing |-> "none", rc |-> NO_ERROR]

\* init_game: the state is set right after updateFigure, before the field
\* and the next figure are allocated; an allocation is made only if none
\* failed before it; last.rc takes what init_game returns
init_game(failing) ==
  /\ last.from = "boot"
  /\ LET error1 == IF failing = "figure" THEN ERROR ELSE NO_ERROR
         error2 == IF error1 # NO_ERROR THEN error1
                   ELSE IF failing = "field" THEN ERROR ELSE NO_ERROR
         error3 == IF error2 # NO_ERROR THEN error2
                   ELSE IF failing = "next" THEN ERROR ELSE NO_ERROR
     IN  /\ figure' = IF error1 = NO_ERROR
                      THEN ZeroMatrix(SIDE_OF_FIGURE_SQUARE, SIDE_OF_FIGURE_SQUARE)
                      ELSE NULL
         /\ state' = IF error1 = NO_ERROR THEN "START" ELSE "EXIT_ERROR"
         /\ field' = IF error2 = NO_ERROR THEN ZeroMatrix(ROWS_MAP, COLS_MAP)
                     ELSE NULL
         /\ next' = IF error3 = NO_ERROR
                    THEN ZeroMatrix(SIDE_OF_FIGURE_SQUARE, SIDE_OF_FIGURE_SQUARE)
                    ELSE NULL
         /\ last' = [from |-> "init_game", failing |-> failing, rc |-> error3]
  /\ score' = 0
  /\ level' = 1
  /\ high_score' = 0
  /\ speed' = INITIAL_TIMEOUT
  /\ pause' = 0
  /\ UNCHANGED <<fig_pos, record, spawns>>

\* main: game_loop runs only after an init_game that returned NO_ERROR
InGameLoop ==
  /\ last.from # "boot"
  /\ last.from = "init_game" => last.rc = NO_ERROR

NextMain ==
  \/ \E failing \in AllocFailures : init_game(failing)
  \/ /\ InGameLoop
     /\ \E action \in UserActions : \E random \in AllRands :
           on_start_state(action, random)
  \/ /\ InGameLoop
     /\ \E random \in AllRands : \E openRW \in BOOLEAN : \E openW \in BOOLEAN :
           on_spawn_state(random, openRW, openW)
  \/ InGameLoop /\ on_moving_state("Terminate")
  \/ InGameLoop /\ on_gameover_state
  \/ InGameLoop /\ on_exit_error_state

SpecMain == InitBoot /\ [][NextMain]_vars

\* game_loop of the build with a terminal: the loop runs userInput on the
\* action of the signal read last and reads the next signal with getch()
\* when the step has left the controller in MOVING or START.  last.from is
\* "init" before the first iteration, "getch" after a read (last.signal is
\* the code read) and the state of the step after a call of userInput.
\*
\* the codes getch() returns: ERR (no key within the timeout), ESCAPE, space,
\* p, r and the arrow keys
Keys == {0 - 1, ESCAPE, 32, 112, 114, KEY_DOWN, KEY_LEFT, KEY_RIGHT}

\* a loop that reads after every step
read_after_EveryStep(st) == TRUE

\* if (*state == MOVING || *state == START) signal = getch();
read_after(st) == st \in {"MOVING", "START"}

\* continue_flag is cleared in the iteration that finds the state GAMEOVER or
\* EXIT_ERROR, before the userInput of that iteration: it is false once a
\* step was taken in one of them
continue_flag == last.from \notin {"GAMEOVER", "EXIT_ERROR"}

\* the loop is at the call of userInput: nothing is to be read first
AtUserInput == last.from \in {"init", "getch"} \/ ~read_after(state)

\* int signal = 0; a step in START or MOVING is always the first of the loop
\* or follows a read
signal_of_loop == IF last.from = "getch" THEN last.signal ELSE 0

getch ==
  /\ continue_flag
  /\ ~AtUserInput
  /\ \E code \in Keys : last' = [from |-> "getch", signal |-> code]
  /\ UNCHANGED <<state, field, next, figure, fig_pos, score, high_score, level,
                 speed, pause, record, spawns>>

\* the session as game_loop finds it: init_game has returned NO_ERROR, or a
\* session is under way and the next figure is about to be spawned; one more
\* figure is spawned within the bound
InitLoop ==
  /\ \/ /\ state = "START"
        /\ field = ZeroMatrix(ROWS_MAP, COLS_MAP)
        /\ next = ZeroMatrix(SIDE_OF_FIGURE_SQUARE, SIDE_OF_FIGURE_SQUARE)
        /\ figure = ZeroMatrix(SIDE_OF_FIGURE_SQUARE, SIDE_OF_FIGURE_SQUARE)
        /\ fig_pos = [x |-> 0, y |-> 0]
        /\ score = 0
        /\ level = 1
        /\ speed = INITIAL_TIMEOUT
        /\ high_score = 0
        /\ record \in {NoRecord, 4500}
     \/ /\ state = "SPAWN"
        /\ \E m \in MidGames :
              /\ field = m.field
              /\ figure = m.figure
              /\ fig_pos = m.fig_pos
              /\ score = m.score
              /\ level = 1 + m.score \div 600
              /\ speed = INITIAL_TIMEOUT - (m.score \div 600) * SPEED_DECREMENT
              /\ high_score = m.high_score
              /\ record = m.record
        /\ \E random \in Rands : next = assign_next_figure(random)
  /\ pause = 0
  /\ spawns = MaxSpawns - 1
  /\ last = Last("init", 0, NO_ERROR)

\* one iteration of the while loop up to the read, and the read
game_loop ==
  \/ /\ continue_flag /\ AtUserInput
     /\ \E random \in Rands : on_start_state(get_action(signal_of_loop), random)
  \/ /\ continue_flag /\ AtUserInput
     /\ \E random \in Rands : \E openRW \in BOOLEAN : \E openW \in BOOLEAN :
           on_spawn_state(random, openRW, openW)
  \/ /\ continue_flag /\ AtUserInput
     /\ on_moving_state(get_action(signal_of_loop))
  \/ /\ continue_flag /\ AtUserInput
     /\ on_shifting_state
  \/ /\ continue_flag /\ AtUserInput
     /\ on_attaching_state
  \/ /\ continue_flag /\ AtUserInput
     /\ on_gameover_state
  \/ /\ continue_flag /\ AtUserInput
     /\ on_exit_error_state
  \/ getch

SpecLoop == InitLoop /\ [][game_loop]_vars

\* getch() returns, by a key or by the timeout, and the loop goes on
SpecLoopFair == SpecLoop /\ WF_vars(game_loop)

----------------------------------------------------------------------------
(* Properties of the controller *)

\* the set cells of a 4x4 matrix
SetCells(fig) == {<<i, j>> \in FigIdx \X FigIdx : fig[i][j] = 1}

\* C1: a step taken in ATTACHING ends in SPAWN or GAMEOVER, never in
\* ATTACHING again, and in SPAWN whenever the level does not exceed MAX_LEVEL.
C1_AttachingLeaves ==
  last.from = "ATTACHING" =>
     /\ state \in {"SPAWN", "GAMEOVER"}
     /\ (level <= MAX_LEVEL => state = "SPAWN")

\* C2: in START, Start leads to SPAWN with a next figure prepared, Terminate
\* to GAMEOVER, every other action stays in START; field, score and level are
\* not changed.
C2_StartStep ==
  [][\A a \in UserActions :
       (\E random \in Rands : on_start_state(a, random)) =>
          /\ a = "Start" => state' = "SPAWN" /\ Cardinality(SetCells(next')) = 4
          /\ a = "Terminate" => state' = "GAMEOVER"
          /\ a \notin {"Start", "Terminate"} => state' = "START" /\ next' = next
          /\ field' = field /\ score' = score /\ level' = level]_vars

C2_Witness ==
  /\ last.from = "START"
  /\ state = "SPAWN"
  /\ Cardinality(SetCells(next)) = 4

\* C3: in MOVING, Up, Down, Left, Right, Action, Pause and No_signal end the
\* step in SHIFTING; Terminate ends it in GAMEOVER and changes neither field,
\* figure, position nor score.
C3_MovingStep ==
  [][/\ \A a \in {"Up", "Down", "Left", "Right", "Action", "Pause", "No_signal"} :
          state' = "SHIFTING" \/ ~on_moving_state(a)
     /\ \/ /\ state' = "GAMEOVER"
           /\ (UNCHANGED <<field, figure, fig_pos, score>>)
        \/ ~on_moving_state("Terminate")]_vars

\* a MOVING step ended in SHIFTING with the figure against the left border or
\* the stack, where Left cannot succeed
C3_Witness ==
  /\ last.from = "MOVING"
  /\ state = "SHIFTING"
  /\ check_collide(field, figure, [fig_pos EXCEPT !.x = @ - 1])

\* C4: a SPAWN step whose high-score update succeeds ends in GAMEOVER if the
\* promoted figure collides at its initial position, and in MOVING if not.
C4_SpawnStep ==
  (last.from = "SPAWN" /\ last.rc = NO_ERROR) =>
     /\ state \in {"GAMEOVER", "MOVING"}
     /\ state = "GAMEOVER" <=>
          \E c \in SetCells(figure) :
             \/ fig_pos.y + c[1] \notin RowIdx
             \/ fig_pos.x + c[2] \notin ColIdx
             \/ field[fig_pos.y + c[1]][fig_pos.x + c[2]] = 1

C4_Witness ==
  /\ last.from = "SPAWN"
  /\ last.rc = NO_ERROR
  /\ state = "GAMEOVER"

\* the high-score update of a SPAWN step is attempted
UpdateAttempted == high_score = 0 \/ score > high_score

\* C5: a SPAWN step whose high-score update fails (the record can neither be
\* opened for update nor created) ends in EXIT_ERROR and leaves figure, next
\* figure, position, field and score unchanged; EXIT_ERROR makes no further
\* attempt (the record is never touched again).
C5_SpawnFailure ==
  [][/\ \A random \in Rands : \A openRW \in BOOLEAN :
          ( /\ on_spawn_state(random, openRW, FALSE)
            /\ UpdateAttempted
            /\ (record = NoRecord \/ ~openRW) ) =>
             /\ state' = "EXIT_ERROR"
             /\ last'.rc = ERROR
             /\ UNCHANGED <<figure, next, fig_pos, field, score>>
     /\ state = "EXIT_ERROR" => (UNCHANGED <<state, record, high_score>>)]_vars

C5_Witness ==
  /\ last.from = "SPAWN"
  /\ last.rc = ERROR
  /\ state = "EXIT_ERROR"

\* C6: a SHIFTING step leaves the position as it was and goes to ATTACHING if
\* the figure collides one row lower; otherwise y grows by exactly 1 and the
\* state becomes MOVING.  x, the figure, the field and the score stay.
C6_ShiftingStep ==
  [][on_shifting_state =>
       /\ IF check_collide(field, figure, [x |-> fig_pos.x, y |-> fig_pos.y + 1])
          THEN fig_pos' = fig_pos /\ state' = "ATTACHING"
          ELSE fig_pos'.y = fig_pos.y + 1 /\ state' = "MOVING"
       /\ fig_pos'.x = fig_pos.x
       /\ (UNCHANGED <<figure, field, score>>)]_vars

C6_Witness ==
  /\ last.from = "SHIFTING"
  /\ state = "ATTACHING"
  /\ fig_pos.y + 3 < ROWS_MAP - 1

\* C7: GAMEOVER and EXIT_ERROR are absorbing: no step changes the state,
\* field, figure, position, score, level or speed.
C7_Terminal ==
  [][(state \in {"GAMEOVER", "EXIT_ERROR"}) =>
       (UNCHANGED <<state, field, figure, fig_pos, score, level, speed>>)]_vars

C7_Witness ==
  /\ last.from = "GAMEOVER"
  /\ state = "GAMEOVER"

\* C8: an ATTACHING step ends in GAMEOVER exactly if the level after the step
\* exceeds MAX_LEVEL, that is if the score after the step is at least 6000.
C8_LevelCap ==
  last.from = "ATTACHING" =>
     /\ state = "GAMEOVER" <=> level > MAX_LEVEL
     /\ level > MAX_LEVEL <=> score >= 6000

C8_Witness ==
  /\ last.from = "ATTACHING"
  /\ state = "GAMEOVER"
  /\ last.n_rows > 0
  /\ score >= 6000

\* the figure has a set cell outside the field or on a filled cell
HitsSomething(fld, fig, pos) ==
  \E c \in SetCells(fig) :
     \/ pos.x + c[2] \notin ColIdx
     \/ pos.y + c[1] \notin RowIdx
     \/ fld[pos.y + c[1]][pos.x + c[2]] = 1

\* C9: check_collide returns true exactly if a set cell of the figure lies
\* outside columns 0..9 or rows 0..19 or on a filled cell; a box that
\* overhangs the border with empty cells only does not collide.  The call
\* changes nothing.
C9_Collide ==
  [][CheckCollideCall =>
       /\ last'.rc = 1 <=> HitsSomething(field, figure, fig_pos)
       /\ last'.rc \in {0, 1}
       /\ (UNCHANGED <<state, field, next, figure, fig_pos, score, high_score,
                       level, speed, pause, record>>)]_vars

\* no collision although the box overhangs the left border and a filled cell
\* lies under an empty cell of the box
C9_Witness ==
  /\ last.from = "check_collide"
  /\ last.rc = 0
  /\ fig_pos.x < 0
  /\ \E i \in FigIdx, j \in FigIdx :
        /\ fig_pos.y + i \in RowIdx
        /\ fig_pos.x + j \in ColIdx
        /\ field[fig_pos.y + i][fig_pos.x + j] = 1

\* the rows of a field from top to bottom
RowsOf(fld) == [k \in 1..ROWS_MAP |-> fld[k - 1]]

IsComplete(row) == row = FullRow
IsIncomplete(row) == row # FullRow

\* the field with its complete rows taken out, as many zero rows put on top,
\* and the other rows in their order
WithoutCompleteRows(fld) ==
  LET kept == SelectSeq(RowsOf(fld), IsIncomplete)
      n == ROWS_MAP - Len(kept)
  IN  [r \in RowIdx |-> IF r < n THEN [c \in ColIdx |-> 0] ELSE kept[r - n + 1]]

\* C10: destruction_of_rows returns the number of rows that were complete and
\* leaves the field with exactly those rows removed, as many zero rows at the
\* top and the other rows in their order.
C10_Destruction ==
  [][DestructionOfRowsCall =>
       /\ last'.n_rows = Len(SelectSeq(RowsOf(field), IsComplete))
       /\ field' = WithoutCompleteRows(field)]_vars

\* rows 3 and 7 were complete: rows 0..2 are now rows 2..4, rows 4..6 are
\* rows 5..7, and the rows from 8 on are where they were
C10_Witness ==
  /\ last.from = "destruction_of_rows"
  /\ last.n_rows = 2
  /\ \A r \in 0..2 : field[r + 2] = PatternRow(r)
  /\ \A r \in 4..6 : field[r + 1] = PatternRow(r)
  /\ \A r \in 8..(ROWS_MAP - 1) : field[r] = PatternRow(r)
  /\ \A r \in 0..1 : field[r] = [c \in ColIdx |-> 0]

\* C11: four calls of rotate_figure in a row give back the matrix they
\* started from; a call changes neither the position nor the field.
C11_FourRotations ==
  [][RotateFigureCall =>
       /\ (last'.calls = 4 => figure' = last.before)
       /\ (UNCHANGED <<fig_pos, field>>)]_vars

\* four calls made on a figure that is not its own rotation
C11_Witness ==
  /\ last.from = "rotate_figure"
  /\ last.calls = 4
  /\ figure = last.before
  /\ figure \in AllFigures
  /\ rotate_figure(figure) # figure

\* C12: after rotate_figure the cell [i][j] holds what the cell [j][3-i]
\* held before the call, for all sixteen cells.
C12_RotateCells ==
  [][RotateFigureCall =>
       \A i \in 0..3 : \A j \in 0..3 : figure'[i][j] = figure[j][3 - i]]_vars

\* one call made on the matrix of sixteen different cells
C12_Witness ==
  /\ last.from = "rotate_figure"
  /\ last.calls = 1
  /\ last.before = NumberedMatrix
  /\ figure # NumberedMatrix

\* C13: rotate_figure turns the figure clockwise as it lies on the field: the
\* cell at row r, column c moves to row c, column 3 - r, so that the top row
\* becomes the rightmost column.
C13_Clockwise ==
  [][RotateFigureCall =>
       /\ \A r \in 0..3 : \A c \in 0..3 : figure'[c][3 - r] = figure[r][c]
       /\ \A c \in 0..3 : figure'[c][3] = figure[0][c]]_vars

\* the points of the scoring table
Points(n) ==
  IF n = 1 THEN 100 ELSE IF n = 2 THEN 300 ELSE IF n = 3 THEN 700
  ELSE IF n = 4 THEN 1500 ELSE 0

\* the score the calls with the arguments ns add up to
RECURSIVE SumOfPoints(_)
SumOfPoints(ns) ==
  IF ns = <<>> THEN 0 ELSE Points(Head(ns)) + SumOfPoints(Tail(ns))

\* C14: recalculate_stats(n) adds 100, 300, 700, 1500 for n = 1..4 and then
\* sets level = 1 + score / 600 and speed = 500 - 30 * (level - 1); n = 0
\* changes nothing; the calls 1, 2, 3, 4 from score 0 give 100, 400, 1100,
\* 2600 and level 5; level and speed follow the score in every state.
C14_Stats ==
  [][\A n \in 0..4 :
       RecalculateStatsCall(n) =>
          /\ score' = score + Points(n)
          /\ n = 0 => (UNCHANGED <<score, level, speed>>)
          /\ level' = 1 + score' \div 600
          /\ speed' = 500 - 30 * (level' - 1)
          /\ score' = SumOfPoints(last'.ns)
          /\ last'.ns = <<1>> => score' = 100
          /\ last'.ns = <<1, 2>> => score' = 400
          /\ last'.ns = <<1, 2, 3>> => score' = 1100
          /\ last'.ns = <<1, 2, 3, 4>> => score' = 2600 /\ level' = 5]_vars

C14_Witness ==
  /\ last.from = "recalculate_stats"
  /\ last.ns = <<1, 2, 3, 4>>
  /\ score = 2600
  /\ level = 5
  /\ speed = 380

\* C15: the score is never negative and never decreases from one step to
\* the next, the high score in memory and the record on disk never decrease,
\* and the score changes only in steps taken in ATTACHING.
C15_Monotone ==
  [][/\ score >= 0
     /\ score' >= score
     /\ high_score' >= high_score
     /\ record # NoRecord => record' >= record
     /\ score' # score => state = "ATTACHING"]_vars

\* the position one row lower, one column to the left, one to the right
Below(pos) == [x |-> pos.x, y |-> pos.y + 1]
LeftOf(pos) == [x |-> pos.x - 1, y |-> pos.y]
RightOf(pos) == [x |-> pos.x + 1, y |-> pos.y]

\* C16: in MOVING, Down takes the figure straight down to where it rests: it
\* does not collide there, collides one row lower, is not higher than before,
\* and x and the shape are as before; the SHIFTING step on a resting figure
\* goes to ATTACHING and leaves the position.
C16_HardDrop ==
  [][/\ \/ /\ state' = "SHIFTING"
           /\ fig_pos'.x = fig_pos.x
           /\ fig_pos'.y >= fig_pos.y
           /\ (UNCHANGED <<figure, field>>)
           /\ ~check_collide(field, figure, fig_pos')
           /\ check_collide(field, figure, Below(fig_pos'))
        \/ ~on_moving_state("Down")
     /\ (on_shifting_state /\ check_collide(field, figure, Below(fig_pos))) =>
          /\ state' = "ATTACHING"
          /\ fig_pos' = fig_pos]_vars

\* a figure dropped from the row it was spawned in onto the stack
C16_Witness ==
  /\ last.from = "MOVING"
  /\ state = "SHIFTING"
  /\ fig_pos.x = init_figure_position(figure).x
  /\ fig_pos.y > init_figure_position(figure).y + 1
  /\ check_collide(field, figure, Below(fig_pos))
  /\ fig_pos.y + SIDE_OF_FIGURE_SQUARE < ROWS_MAP

\* C17: in MOVING, Left (Right) changes x by -1 (+1) if the figure does not
\* collide in the new column and leaves x otherwise; y, the shape, the field
\* and the score are unchanged.
C17_Sideways ==
  [][/\ on_moving_state("Left") =>
          /\ fig_pos'.x = IF check_collide(field, figure, LeftOf(fig_pos))
                          THEN fig_pos.x ELSE fig_pos.x - 1
          /\ fig_pos'.y = fig_pos.y
          /\ (UNCHANGED <<figure, field, score>>)
     /\ on_moving_state("Right") =>
          /\ fig_pos'.x = IF check_collide(field, figure, RightOf(fig_pos))
                          THEN fig_pos.x ELSE fig_pos.x + 1
          /\ fig_pos'.y = fig_pos.y
          /\ (UNCHANGED <<figure, field, score>>)]_vars

\* the figure one column left of where it was spawned, still in the row it
\* was spawned in
C17_Witness ==
  /\ last.from = "MOVING"
  /\ state = "SHIFTING"
  /\ fig_pos.x = init_figure_position(figure).x - 1
  /\ fig_pos.y = init_figure_position(figure).y
  /\ ~check_collide(field, figure, fig_pos)

\* C18: in MOVING, Action makes the shape the rotated one if that does not
\* collide at the position and leaves it cell for cell as it was otherwise;
\* the position and the field are unchanged.
C18_Rotate ==
  [][on_moving_state("Action") =>
       /\ figure' = IF check_collide(field, rotate_figure(figure), fig_pos)
                    THEN figure ELSE rotate_figure(figure)
       /\ (UNCHANGED <<fig_pos, field>>)]_vars

\* a figure in MOVING's next state that cannot be rotated where it is
C18_Witness ==
  /\ last.from = "MOVING"
  /\ state = "SHIFTING"
  /\ rotate_figure(figure) # figure
  /\ check_collide(field, rotate_figure(figure), fig_pos)
  /\ ~check_collide(field, figure, fig_pos)

C20_StartSelfLoop ==
  [][on_moving_state("Start") =>
       /\ state' = "MOVING"
       /\ (UNCHANGED <<figure, fig_pos, field>>)]_vars

\* the first column and the first row of a matrix that hold a set cell
LeftmostCol(fig) ==
  CHOOSE c \in FigIdx :
     /\ \E i \in FigIdx : fig[i][c] # 0
     /\ \A d \in FigIdx : d < c => \A i \in FigIdx : fig[i][d] = 0
TopmostRow(fig) ==
  CHOOSE r \in FigIdx :
     /\ \E j \in FigIdx : fig[r][j] # 0
     /\ \A q \in FigIdx : q < r => \A j \in FigIdx : fig[q][j] = 0

\* the rest of the start scenario: Terminate in MOVING leads to GAMEOVER, and
\* no step changes anything in GAMEOVER
TerminateEnds ==
  /\ on_moving_state("Terminate") => state' = "GAMEOVER"
  /\ state = "GAMEOVER" =>
        UNCHANGED <<state, field, next, figure, fig_pos, score, high_score,
                    level, speed, pause, record>>

EmptyRowsOnTop(fig) ==
  {r \in FigIdx : \A q \in FigIdx : q <= r => \A j \in FigIdx : fig[q][j] = 0}

\* C22: once init_figure_position has placed the figure, for every shape in
\* every rotation, y is minus the number of leading empty rows of the matrix,
\* the topmost occupied row lies on field row 0 and no set cell has a
\* negative row.
C22_TopRowOnZero ==
  (last.from = "SPAWN" /\ last.rc = NO_ERROR) =>
     /\ fig_pos.y = 0 - Cardinality(EmptyRowsOnTop(figure))
     /\ fig_pos.y + TopmostRow(figure) = 0
     /\ \A c \in SetCells(figure) : fig_pos.y + c[1] >= 0

\* a figure placed two rows up: the I whose cells are in row 2 of the matrix
C22_Witness ==
  /\ last.from = "SPAWN"
  /\ last.rc = NO_ERROR
  /\ fig_pos.y = 0 - 2
  /\ TopmostRow(figure) = 2

\* C23: a SPAWN step whose high-score update succeeds makes the active
\* figure cell for cell the next figure as it was before the step and draws a
\* new next figure; no other step after START changes the next figure, so the
\* figure shown as next is the one the following spawn makes active.
C23_Promote ==
  [][/\ (state = "SPAWN" /\ last'.rc = NO_ERROR) =>
          /\ \A i \in FigIdx : \A j \in FigIdx : figure'[i][j] = next[i][j]
          /\ next' \in AllFigures
     /\ state \notin {"START", "SPAWN"} => next' = next]_vars

\* a figure promoted while the new next figure is another one
C23_Witness ==
  /\ last.from = "SPAWN"
  /\ last.rc = NO_ERROR
  /\ state = "MOVING"
  /\ figure \in AllFigures
  /\ next \in AllFigures
  /\ next # figure

\* a template of the table as a matrix, and a matrix turned by 0 to 3
\* quarter turns about the centre of the 4x4 square
Template(n) == [i \in FigIdx |-> [j \in FigIdx |-> all_figures[n][i + 1][j + 1]]]
QuarterTurns(f) ==
  { f,
    [i \in FigIdx |-> [j \in FigIdx |-> f[j][3 - i]]],
    [i \in FigIdx |-> [j \in FigIdx |-> f[3 - i][3 - j]]],
    [i \in FigIdx |-> [j \in FigIdx |-> f[3 - j][i]]] }
CanonicalMatrices == UNION {QuarterTurns(Template(n)) : n \in 1..7}

\* C24: the next figure that assign_next_figure has drawn (it has in SPAWN
\* and ever after the first spawn) is one of the 7 templates rotated 0 to 3
\* times and has exactly 4 set cells, and so is the active figure in every
\* MOVING, SHIFTING and ATTACHING state.
C24_CanonicalFigures ==
  /\ (state = "SPAWN" \/ spawns > 0) =>
        /\ next \in CanonicalMatrices
        /\ Cardinality(SetCells(next)) = 4
  /\ state \in {"MOVING", "SHIFTING", "ATTACHING"} =>
        /\ figure \in CanonicalMatrices
        /\ Cardinality(SetCells(figure)) = 4

\* a figure turned by the player since it was placed, about to be attached
C24_Witness ==
  /\ state = "ATTACHING"
  /\ figure \in AllFigures
  /\ \E random \in AllRands :
        /\ fig_pos.x # init_figure_position(assign_next_figure(random)).x
        /\ figure = rotate_figure(assign_next_figure(random))
        /\ figure # assign_next_figure(random)

\* the key codes of each action: the four arrow keys, R and r, space, P and
\* p, escape
KeysOf ==
  [a \in UserActions \ {"No_signal"} |->
     CASE a = "Up" -> {259}
       [] a = "Down" -> {258}
       [] a = "Left" -> {260}
       [] a = "Right" -> {261}
       [] a = "Start" -> {82, 114}
       [] a = "Action" -> {32}
       [] a = "Pause" -> {80, 112}
       [] a = "Terminate" -> {27}]

\* C25: get_action returns the action of the key for the codes of the table
\* and No_signal for every other code, 0 and -1 included, and changes no
\* game data.
C25_KeyMapping ==
  [][GetActionCall =>
       /\ \A a \in UserActions \ {"No_signal"} :
             last.signal \in KeysOf[a] => last'.action = a
       /\ last.signal \notin UNION {KeysOf[a] : a \in UserActions \ {"No_signal"}} =>
             last'.action = "No_signal"
       /\ (UNCHANGED <<state, field, next, figure, fig_pos, score, high_score,
                       level, speed, pause, record>>)]_vars

\* the lower-case r taken for Start
C25_Witness ==
  /\ last.from = "get_action"
  /\ last.signal = 114
  /\ last.action = "Start"

\* C26: a SPAWN step whose high_score_update succeeds leaves the record equal
\* to the score if there was no record, and to the larger of the record and
\* the score if there was one.
C26_RecordIsMax ==
  [][(state = "SPAWN" /\ last'.rc = NO_ERROR) =>
       record' = IF record = NoRecord THEN score
                 ELSE IF score > record THEN score ELSE record]_vars

\* C27: when init_game returns after an allocation of the active figure, the
\* field or the next figure failed, the state is EXIT_ERROR and the value
\* returned is not zero.
C27_AllocFailure ==
  (last.from = "init_game" /\ last.failing # "none") =>
     /\ state = "EXIT_ERROR"
     /\ last.rc # 0

\* C28: EXIT_ERROR is entered only by a SPAWN step whose high-score update
\* fails (init_game apart, which precedes the first step); no step taken in
\* MOVING or SHIFTING, whether the move, drop, rotation or shift collides or
\* not, leads to EXIT_ERROR or changes the score or the field.
C28_CollisionsAbsorbed ==
  [][/\ state' = "EXIT_ERROR" =>
          \/ state = "EXIT_ERROR"
          \/ state = "SPAWN" /\ last'.rc # NO_ERROR
     /\ state \in {"MOVING", "SHIFTING"} =>
          /\ state' # "EXIT_ERROR"
          /\ (UNCHANGED <<score, field>>)]_vars

\* after a MOVING step the figure has the stack right of one of its cells: a
\* move to the right collides there
C28_Witness ==
  /\ last.from = "MOVING"
  /\ state = "SHIFTING"
  /\ \E c \in SetCells(figure) :
        /\ fig_pos.y + c[1] \in RowIdx
        /\ fig_pos.x + c[2] + 1 \in ColIdx
        /\ field[fig_pos.y + c[1]][fig_pos.x + c[2] + 1] = 1

\* the field is ROWS_MAP rows of COLS_MAP cells, each 0 or 1
FieldShape(fld) ==
  /\ DOMAIN fld = 0 .. 19
  /\ \A r \in DOMAIN fld :
        /\ DOMAIN fld[r] = 0 .. 9
        /\ \A c \in DOMAIN fld[r] : fld[r][c] \in {0, 1}

\* C29: the field is always 20 rows of 10 cells that are 0 or 1, and only
\* steps taken in ATTACHING change it: the field the run starts with has that
\* shape, a step taken in ATTACHING attaches a figure that lies inside the
\* field and leaves a field of that shape, and steps taken in START, SPAWN,
\* MOVING, SHIFTING, GAMEOVER and EXIT_ERROR leave every cell as it was.
C29_FieldFrame ==
  [][/\ last.from = "init" => FieldShape(field)
     /\ IF state = "ATTACHING"
        THEN /\ \A c \in SetCells(figure) :
                   /\ fig_pos.y + c[1] \in 0 .. 19
                   /\ fig_pos.x + c[2] \in 0 .. 9
             /\ FieldShape(field')
        ELSE field' = field]_vars

\* a step taken in ATTACHING has changed the field, rows were removed
C29_Witness ==
  /\ last.from = "ATTACHING"
  /\ last.n_rows > 0
  /\ FieldShape(field)
  /\ \E r \in RowIdx : \E c \in ColIdx : field[r][c] = 1

\* C30: a step taken in ATTACHING removes between 0 and 4 rows, and the score
\* grows in it by 0, 100, 300, 700 or 1500.
C30_AtMostFourRows ==
  [][on_attaching_state =>
       /\ last'.n_rows \in 0 .. 4
       /\ score' - score \in {0, 100, 300, 700, 1500}
       /\ last'.n_rows = 0 <=> score' = score]_vars

\* four rows removed in one step
C30_Witness ==
  /\ last.from = "ATTACHING"
  /\ last.n_rows = 4
  /\ score = 1500

\* C31: attach_figure_to_field sets to 1 exactly the field cells (y+i, x+j)
\* whose figure cell (i, j) is set and leaves every other field cell, the
\* figure, the position, the score and the lifecycle state as they were; a
\* row it completes stays in the field.
C31_AttachFrame ==
  [][AttachFigureToFieldCall =>
       /\ \A r \in RowIdx : \A c \in ColIdx :
             field'[r][c] =
               IF \E cell \in SetCells(figure) :
                     /\ r = fig_pos.y + cell[1]
                     /\ c = fig_pos.x + cell[2]
               THEN 1 ELSE field[r][c]
       /\ (UNCHANGED <<figure, fig_pos, score, state, next, level, speed,
                       high_score>>)]_vars

\* the call has completed a row, the row is still there, and a filled cell
\* under an empty cell of the 4x4 box is still filled
C31_Witness ==
  /\ last.from = "attach_figure_to_field"
  /\ \E r \in RowIdx : \A c \in ColIdx : field[r][c] = 1
  /\ \E i \in FigIdx, j \in FigIdx :
        /\ figure[i][j] = 0
        /\ fig_pos.y + i \in RowIdx
        /\ fig_pos.x + j \in ColIdx
        /\ field[fig_pos.y + i][fig_pos.x + j] = 1

\* C32: in MOVING, SHIFTING and ATTACHING the figure at its position is free
\* of collisions: every set cell lies in columns 0..9 and rows 0..19 on an
\* empty cell of the field.
C32_FigureFree ==
  state \in {"MOVING", "SHIFTING", "ATTACHING"} =>
    \A i \in 1 .. 4 : \A j \in 1 .. 4 :
       figure[i - 1][j - 1] # 0 =>
         /\ fig_pos.x + (j - 1) \in 0 .. 9
         /\ fig_pos.y + (i - 1) \in 0 .. 19
         /\ field[fig_pos.y + (i - 1)][fig_pos.x + (j - 1)] = 0

\* a figure about to be attached that touches the right border and rests on
\* filled cells
C32_Witness ==
  /\ state = "ATTACHING"
  /\ last.from = "SHIFTING"
  /\ \E c \in SetCells(figure) : fig_pos.x + c[2] = 9
  /\ \E c \in SetCells(figure) :
        /\ fig_pos.y + c[1] + 1 \in RowIdx
        /\ field[fig_pos.y + c[1] + 1][fig_pos.x + c[2]] = 1

\* the number of filled cells of a field
FilledCells(fld) ==
  Cardinality({rc \in RowIdx \X ColIdx : fld[rc[1]][rc[2]] = 1})

\* the filled cells before the figure at rest was merged, and the rows
\* removed since: in a repeated ATTACHING step the step before has merged
\* four cells and removed last.n_rows rows
CellsBeforeFigure ==
  IF last.from = "ATTACHING"
  THEN FilledCells(field) - 4 + 10 * last.n_rows
  ELSE FilledCells(field)

RowsSoFar == IF last.from = "ATTACHING" THEN last.n_rows ELSE 0

\* C33: a figure is merged into the field once: when the ATTACHING step hands
\* over to SPAWN or GAMEOVER the field holds the cells it held before the
\* figure came to rest, plus 4, minus 10 for each row removed.
C33_AttachedOnce ==
  [][(state = "ATTACHING" /\ state' \in {"SPAWN", "GAMEOVER"}) =>
       FilledCells(field') =
         CellsBeforeFigure + 4 - 10 * (RowsSoFar + last'.n_rows)]_vars

\* C34: when a session with a record file that can always be opened has come
\* to GAMEOVER, by a colliding spawn, by Terminate in MOVING or by a level
\* above the cap, the record on disk is at least the score.
C34_FinalScoreOnRecord ==
  (state = "GAMEOVER" /\ last.from \in {"SPAWN", "MOVING", "ATTACHING"}) =>
     /\ record # NoRecord
     /\ record >= score

\* C35: between two controller steps the field holds no complete row, and
\* destruction_of_rows called on it returns 0 and the same field.
C35_NoCompleteRow ==
  /\ \A r \in RowIdx : \E c \in ColIdx : field[r][c] # 1
  /\ destruction_of_rows(field).n_rows = 0
  /\ destruction_of_rows(field).field = field

\* an ATTACHING step has removed three rows at once and cells are left
C35_Witness ==
  /\ last.from = "ATTACHING"
  /\ last.n_rows = 3
  /\ \E r \in RowIdx : \E c \in ColIdx : field[r][c] = 1

\* C36: the score is at most 7400, the level at most 13 and the speed at
\* least 140; in MOVING and SHIFTING the level is at most 10 and the speed at
\* least 230.
C36_Bounds ==
  /\ score <= 7400
  /\ level <= 13
  /\ speed >= 140
  /\ speed > 0
  /\ state \in {"MOVING", "SHIFTING"} => (level <= 10 /\ speed >= 230)

\* the bounds are met: four rows removed at 5900 points
C36_Witness ==
  /\ state = "GAMEOVER"
  /\ last.from = "ATTACHING"
  /\ score = 7400
  /\ level = 13
  /\ speed = 140

\* C37: while a figure is in play, in the steps taken in MOVING, SHIFTING and
\* ATTACHING, its y never decreases, and a SHIFTING step that returns to
\* MOVING increases it by at least 1; y starts at -2 or above and never
\* exceeds 18, so at most 20 rounds of MOVING and SHIFTING return to MOVING.
C37_Descends ==
  [][(state \in {"MOVING", "SHIFTING", "ATTACHING"}) =>
       /\ fig_pos.y >= 0 - 2
       /\ fig_pos'.y <= 18
       /\ (state = "SHIFTING" /\ state' = "MOVING") => fig_pos'.y > fig_pos.y
       /\ fig_pos'.y >= fig_pos.y]_vars

\* a figure that came down to y = 18 row by row and is back in MOVING
C37_Witness ==
  /\ state = "MOVING"
  /\ last.from = "SHIFTING"
  /\ fig_pos.y = 18

\* what is left of the session: the points up to the score at which the
\* level is above the cap in any case, then the free cells of the field,
\* then the way of the figure in play down to the step that attaches it
Variant ==
  (7500 - score) * 100000
  + (ROWS_MAP * COLS_MAP - FilledCells(field)) * 100
  + (IF state = "SPAWN" THEN 99
     ELSE IF state = "MOVING" THEN 2 * (19 - fig_pos.y) + 2
     ELSE IF state = "SHIFTING" THEN 2 * (19 - fig_pos.y) + 1
     ELSE 0)

Terminal == state \in {"GAMEOVER", "EXIT_ERROR"}

\* the spawn that follows is beyond the bound of the model
OutOfSpawns == state = "SPAWN" /\ spawns = MaxSpawns

StepTaken == last'.from # "getch"

C40_ActionIgnored ==
  [][(/\ state \in {"SPAWN", "SHIFTING", "ATTACHING", "GAMEOVER", "EXIT_ERROR"}
      /\ \E action \in UserActions : userInput(action)) =>
       \A action \in UserActions : userInput(action)]_vars

\* a step taken in ATTACHING, where the action is not looked at: rows were
\* removed and the next spawn is asked for
C40_Witness ==
  /\ last.from = "ATTACHING"
  /\ state = "SPAWN"
  /\ last.n_rows > 0

=============================================================================
